---- MODULE Spec2Model ----
(***************************************************************************)
(* Item transport of shapez.io: the ItemEjectorSystem (update,             *)
(* tryPassOverItem) and the StaticMapEntityComponent transform it uses.    *)
(***************************************************************************)
EXTENDS Integers, Sequences, FiniteSets, TLC

(***************************************************************************)
(* Bounds of the model.                                                    *)
(***************************************************************************)
\* world and local tile coordinates range over -MaxCoord..MaxCoord
MaxCoord == 1
\* an entity's footprint is at most MaxSize x MaxSize tiles
MaxSize == 2

Coords == (0 - MaxCoord)..MaxCoord
Vec(x, y) == [x |-> x, y |-> y]
Tiles == {Vec(x, y) : x \in Coords, y \in Coords}
Sizes == {Vec(w, h) : w \in 1..MaxSize, h \in 1..MaxSize}

(***************************************************************************)
(* core/vector: the direction enumeration, its unit vectors and the fast   *)
(* rotation by a multiple of 90 degrees.                                   *)
(***************************************************************************)
ValidRotations == {0, 90, 180, 270}
enumDirection == {"top", "right", "bottom", "left"}
DirCycle == <<"top", "right", "bottom", "left">>
DirIndex(d) == CHOOSE i \in 1..4 : DirCycle[i] = d

enumDirectionToVector(d) ==
    CASE d = "top" -> Vec(0, -1)
      [] d = "right" -> Vec(1, 0)
      [] d = "bottom" -> Vec(0, 1)
      [] d = "left" -> Vec(-1, 0)

\* the angles the rotation primitives take: a multiple of 90 in 0..360,
\* where 360 is a full turn
AngleValid(angle) == angle \in {0, 90, 180, 270, 360}

\* Vector.rotateFastMultipleOf90: a 4-way switch, no trigonometry
rotateFastMultipleOf90(v, angle) ==
    CASE angle \in {0, 360} -> Vec(v.x, v.y)
      [] angle = 90 -> Vec(0 - v.y, v.x)
      [] angle = 180 -> Vec(0 - v.x, 0 - v.y)
      [] angle = 270 -> Vec(v.y, 0 - v.x)

\* Vector.transformDirectionFromMultipleOf90: an index shift in the cycle
transformDirectionFromMultipleOf90(direction, angle) ==
    DirCycle[((DirIndex(direction) - 1 + (angle \div 90)) % 4) + 1]

add(a, b) == Vec(a.x + b.x, a.y + b.y)
sub(a, b) == Vec(a.x - b.x, a.y - b.y)

(***************************************************************************)
(* StaticMapEntityComponent                                                *)
(***************************************************************************)
StaticMapEntityComponent(origin, tileSize, rotation, originalRotation) ==
    [origin |-> origin, tileSize |-> tileSize, rotation |-> rotation,
     originalRotation |-> originalRotation]

\* the constructor's assertion: rotation % 90 === 0
ConstructorAccepts(rotation, originalRotation) == rotation % 90 = 0

Rectangle(x, y, w, h) == [x |-> x, y |-> y, w |-> w, h |-> h]
InvalidRotation == [error |-> "Invalid rotation"]

\* a bounds computation that forgets the + 1 of the 90 degree case
getTileSpaceBounds_NoPlusOne(c) ==
    CASE c.rotation = 0 ->
           Rectangle(c.origin.x, c.origin.y, c.tileSize.x, c.tileSize.y)
      [] c.rotation = 90 ->
           Rectangle(c.origin.x - c.tileSize.y, c.origin.y,
                     c.tileSize.y, c.tileSize.x)
      [] c.rotation = 180 ->
           Rectangle(c.origin.x - c.tileSize.x + 1,
                     c.origin.y - c.tileSize.y + 1,
                     c.tileSize.x, c.tileSize.y)
      [] c.rotation = 270 ->
           Rectangle(c.origin.x, c.origin.y - c.tileSize.x + 1,
                     c.tileSize.y, c.tileSize.x)
      [] OTHER -> InvalidRotation

getTileSpaceBounds(c) ==
    CASE c.rotation = 0 ->
           Rectangle(c.origin.x, c.origin.y, c.tileSize.x, c.tileSize.y)
      [] c.rotation = 90 ->
           Rectangle(c.origin.x - c.tileSize.y + 1, c.origin.y,
                     c.tileSize.y, c.tileSize.x)
      [] c.rotation = 180 ->
           Rectangle(c.origin.x - c.tileSize.x + 1,
                     c.origin.y - c.tileSize.y + 1,
                     c.tileSize.x, c.tileSize.y)
      [] c.rotation = 270 ->
           Rectangle(c.origin.x, c.origin.y - c.tileSize.x + 1,
                     c.tileSize.y, c.tileSize.x)
      [] OTHER -> InvalidRotation

\* the angles handed to the rotation primitives
ApplyAngle(c) == c.rotation
UnapplyAngle(c) == 360 - c.rotation

applyRotationToVector(c, vector) ==
    rotateFastMultipleOf90(vector, ApplyAngle(c))

\* an inverse that rotates forwards once more
unapplyRotationToVector_Forward(c, vector) ==
    rotateFastMultipleOf90(vector, ApplyAngle(c))

unapplyRotationToVector(c, vector) ==
    rotateFastMultipleOf90(vector, UnapplyAngle(c))

\* a direction transform that turns the other way round
localDirectionToWorld_Backward(c, direction) ==
    transformDirectionFromMultipleOf90(direction, UnapplyAngle(c))

localDirectionToWorld(c, direction) ==
    transformDirectionFromMultipleOf90(direction, ApplyAngle(c))

\* an inverse that turns forwards once more
worldDirectionToLocal_Forward(c, direction) ==
    transformDirectionFromMultipleOf90(direction, ApplyAngle(c))

worldDirectionToLocal(c, direction) ==
    transformDirectionFromMultipleOf90(direction, UnapplyAngle(c))

\* a conversion that forgets to rotate
localTileToWorld_NoRotation(c, localTile) == add(localTile, c.origin)

localTileToWorld(c, localTile) ==
    add(applyRotationToVector(c, localTile), c.origin)

\* a conversion that forgets to take the origin off
worldToLocalTile_NoOrigin(c, worldTile) ==
    unapplyRotationToVector(c, worldTile)

worldToLocalTile(c, worldTile) ==
    unapplyRotationToVector(c, sub(worldTile, c.origin))

(***************************************************************************)
(* Numbers.  JavaScript numbers are IEEE-754 doubles.  A double d with     *)
(* 0 <= d < 2 that is a multiple of 2^-56 is held as the integer d * 2^56  *)
(* in two limbs of 28 bits: d * 2^56 = hi * 2^28 + lo.                     *)
(***************************************************************************)
Limb == 2 ^ 28
Dbl(hi, lo) == [hi |-> hi, lo |-> lo]
Zero == Dbl(0, 0)
One == Dbl(Limb, 0)
\* the doubles nearest to 0.1, 0.25 and 0.5 (0.1 is 0x1.999999999999ap-4)
Tenth == Dbl(26843545, 161061274)
Quarter == Dbl(Limb \div 4, 0)
Half == Dbl(Limb \div 2, 0)

\* a + b of two doubles, rounded to 53 significant bits, ties to even
fadd(a, b) ==
    LET lo0 == a.lo + b.lo
        lo1 == lo0 % Limb
        hi1 == a.hi + b.hi + (lo0 \div Limb)
        ulp == IF hi1 >= Limb THEN 16
               ELSE IF hi1 >= Limb \div 2 THEN 8
               ELSE IF hi1 >= Limb \div 4 THEN 4
               ELSE IF hi1 >= Limb \div 8 THEN 2
               ELSE 1
        q == lo1 \div ulp
        r == lo1 % ulp
        up == (2 * r > ulp) \/ (2 * r = ulp /\ q % 2 = 1)
        lo2 == (IF up THEN q + 1 ELSE q) * ulp
    IN  IF lo2 = Limb THEN Dbl(hi1 + 1, 0) ELSE Dbl(hi1, lo2)

fless(a, b) == a.hi < b.hi \/ (a.hi = b.hi /\ a.lo < b.lo)
Math_min(a, b) == IF fless(b, a) THEN b ELSE a

(***************************************************************************)
(* Items, entities and their components.                                   *)
(***************************************************************************)
\* at most MaxItems items exist at a time
MaxItems == 2
\* a receiver capability holds at most Capacity items before it refuses
Capacity == 1
\* the history counters stop counting at these values
MaxWaited == 12
MaxBlocked == 4

null == 0
Items == 1..MaxItems
ItemKind(item) == IF item % 2 = 1 THEN "shape" ELSE "color"

Caps == {"Belt", "ItemProcessor", "UndergroundBelt"}
NoEntity == "none"

\* ItemEjectorComponent: a slot as the ejector holds it
EjectorSlot(pos, direction) ==
    [pos |-> pos, direction |-> direction, item |-> null, progress |-> Zero]

\* ItemAcceptorComponent: a slot takes items that arrive at pos moving
\* away from one of its directions; filter restricts the item kind
AcceptorSlot(pos, directions, filter) ==
    [pos |-> pos, directions |-> directions, filter |-> filter]
NoAcceptor == [present |-> FALSE, slots |-> <<>>]
Acceptor(slots) == [present |-> TRUE, slots |-> slots]

Entity(static, acceptor, caps) ==
    [StaticMapEntity |-> static, ItemAcceptor |-> acceptor,
     Belt |-> "Belt" \in caps, ItemProcessor |-> "ItemProcessor" \in caps,
     UndergroundBelt |-> "UndergroundBelt" \in caps]

enumInvertedDirections(d) ==
    CASE d = "top" -> "bottom"
      [] d = "right" -> "left"
      [] d = "bottom" -> "top"
      [] d = "left" -> "right"

NoMatch == [found |-> FALSE, index |-> -1, acceptedDirection |-> "none"]

\* ItemAcceptorComponent.findMatchingSlot: the first slot at the tile that
\* takes items from the side the item comes from
findMatchingSlot(acceptor, targetLocalTile, fromLocalDirection) ==
    LET desired == enumInvertedDirections(fromLocalDirection)
        hits == {i \in 1..Len(acceptor.slots) :
                    /\ acceptor.slots[i].pos = targetLocalTile
                    /\ desired \in acceptor.slots[i].directions}
    IN  IF hits = {} THEN NoMatch
        ELSE [found |-> TRUE,
              index |-> (CHOOSE i \in hits : \A j \in hits : i <= j) - 1,
              acceptedDirection |-> desired]

\* ItemAcceptorComponent.canAcceptItem
canAcceptItem(acceptor, slotIndex, item) ==
    acceptor.slots[slotIndex + 1].filter \in {"none", ItemKind(item)}

\* A capability of the receiver with the items it holds: it takes an item
\* while it holds fewer than Capacity, and refuses otherwise.
HasRoom(h, cap) == Len(h[cap]) < Capacity
Take(h, cap, item) == [h EXCEPT ![cap] = Append(@, item)]

canAcceptNewItem(h, localDirection) == HasRoom(h, "Belt")
takeNewItem(h, item, localDirection) == Take(h, "Belt", item)
tryTakeItem(h, item, slotIndex, localDirection) == HasRoom(h, "ItemProcessor")
tryAcceptExternalItem(h, item) == HasRoom(h, "UndergroundBelt")

(***************************************************************************)
(* The world: the entities on the grid and the ejector system's list.      *)
(***************************************************************************)
RectContains(r, tile) ==
    /\ r.x <= tile.x /\ tile.x < r.x + r.w
    /\ r.y <= tile.y /\ tile.y < r.y + r.h

\* root.map.getTileContent
getTileContent(w, tile) ==
    LET here == {e \in DOMAIN w.entities :
                    RectContains(getTileSpaceBounds(w.entities[e].StaticMapEntity),
                                 tile)}
    IN  IF here = {} THEN NoEntity ELSE CHOOSE e \in here : TRUE

OneTile == Vec(1, 1)
Static(origin, rotation) ==
    StaticMapEntityComponent(origin, OneTile, rotation, rotation)

\* The receiver R at (1,0) takes items from its left into slot 0 and, shapes
\* only, from its right into slot 1.
ReceiverSlots ==
    <<AcceptorSlot(Vec(0, 0), {"left"}, "none"),
      AcceptorSlot(Vec(0, 0), {"right"}, "shape")>>

\* E1 at (0,0) and E2 at (2,0) eject towards (1,0) when E1 is not rotated;
\* W at (0,1) is an entity that accepts nothing.  E3 is an ejector with two
\* slots that stands where E1 stands.  E4 is an ejector of two tiles at
\* (3,3) with a slot on each tile, away from every other entity.
World(rotE1, rotR, capsR, ejectors) ==
    [allEntities |-> ejectors,
     entities |->
        [e \in {"R", "W"} \cup {ejectors[i] : i \in 1..Len(ejectors)} |->
            CASE e = "E1" -> Entity(Static(Vec(0, 0), rotE1), NoAcceptor, {})
              [] e = "E2" -> Entity(Static(Vec(2, 0), 180), NoAcceptor, {})
              [] e = "E3" -> Entity(Static(Vec(0, 0), rotE1), NoAcceptor, {})
              [] e = "E4" -> Entity(StaticMapEntityComponent(
                                        Vec(3, 3), Vec(2, 1), rotE1, rotE1),
                                    NoAcceptor, {})
              [] e = "R" -> Entity(Static(Vec(1, 0), rotR),
                                   Acceptor(ReceiverSlots), capsR)
              [] e = "W" -> Entity(Static(Vec(0, 1), 0), NoAcceptor, {})]]

InitialSlots(e) ==
    IF e = "E3"
    THEN <<EjectorSlot(Vec(0, 0), "right"), EjectorSlot(Vec(0, 0), "right")>>
    ELSE IF e = "E4"
    THEN <<EjectorSlot(Vec(0, 0), "top"), EjectorSlot(Vec(1, 0), "right")>>
    ELSE <<EjectorSlot(Vec(0, 0), "right")>>

(***************************************************************************)
(* State.                                                                  *)
(***************************************************************************)
VARIABLES
    world,      \* the entities on the grid (fixed once placed)
    growth,     \* progressGrowth, as update() computes it from the belt speed
    slots,      \* slots[e]: the ejector slots of entity e
    held,       \* held[cap]: the items the receiver's capability cap holds
    hist,       \* hist[e][s]: the update() calls the slot's item has seen
    cursor,     \* the slot update() is at, or Idle between two passes
    lastStep,   \* what the latest slot step of update() did
    passLog,    \* the slot steps of the current update() pass, in order
    comp,       \* a StaticMapEntityComponent under test
    out,        \* the latest transform call on comp and its result
    drawn       \* the draw calls of the frame drawn, or NoDraw before it

vars ==
    <<world, growth, slots, held, hist, cursor, lastStep, passLog, comp, out,
      drawn>>
tickVars == <<world, growth, slots, held, hist, cursor,
             lastStep, passLog>>
geoVars == <<comp, out, drawn>>

Idle == [i |-> 0, s |-> 0]
NoStep == [entity |-> NoEntity, slot |-> 0, outcome |-> "none", calls |-> <<>>,
           item |-> null, waited |-> 0, blocked |-> 0]
NoHist == [waited |-> 0, blocked |-> 0]
NoOut == [op |-> "none"]
NoDraw == [entity |-> NoEntity, calls |-> <<>>]

Min(a, b) == IF a < b THEN a ELSE b

(***************************************************************************)
(* ItemEjectorSystem.tryPassOverItem: the result, the receiver's items     *)
(* after it and the capability calls it made, in order.                    *)
(***************************************************************************)
\* a handoff that asks only the first capability the receiver exposes
tryPassOverItem_FirstExposedOnly(item, r, receiver, slotIndex, localDirection, h) ==
    IF receiver.Belt
    THEN [ok |-> canAcceptNewItem(h, localDirection),
          held |-> IF canAcceptNewItem(h, localDirection)
                   THEN takeNewItem(h, item, localDirection) ELSE h,
          calls |-> <<[fn |-> "Belt.canAcceptNewItem", on |-> r,
                       direction |-> localDirection]>> \o
                    IF canAcceptNewItem(h, localDirection)
                    THEN <<[fn |-> "Belt.takeNewItem", on |-> r,
                            item |-> item, direction |-> localDirection]>>
                    ELSE <<>>]
    ELSE IF receiver.ItemProcessor
    THEN [ok |-> tryTakeItem(h, item, slotIndex, localDirection),
          held |-> IF tryTakeItem(h, item, slotIndex, localDirection)
                   THEN Take(h, "ItemProcessor", item) ELSE h,
          calls |-> <<[fn |-> "ItemProcessor.tryTakeItem", on |-> r,
                       item |-> item, index |-> slotIndex,
                       direction |-> localDirection]>>]
    ELSE IF receiver.UndergroundBelt
    THEN [ok |-> tryAcceptExternalItem(h, item),
          held |-> IF tryAcceptExternalItem(h, item)
                   THEN Take(h, "UndergroundBelt", item) ELSE h,
          calls |-> <<[fn |-> "UndergroundBelt.tryAcceptExternalItem",
                       on |-> r, item |-> item]>>]
    ELSE [ok |-> FALSE, held |-> h, calls |-> <<>>]

tryPassOverItem(item, r, receiver, slotIndex, localDirection, h) ==
    LET beltCalls ==
            IF receiver.Belt
            THEN <<[fn |-> "Belt.canAcceptNewItem", on |-> r,
                    direction |-> localDirection]>>
            ELSE <<>>
        procCalls ==
            IF receiver.ItemProcessor
            THEN <<[fn |-> "ItemProcessor.tryTakeItem", on |-> r, item |-> item,
                    index |-> slotIndex, direction |-> localDirection]>>
            ELSE <<>>
        relayCalls ==
            IF receiver.UndergroundBelt
            THEN <<[fn |-> "UndergroundBelt.tryAcceptExternalItem", on |-> r,
                    item |-> item]>>
            ELSE <<>>
    IN  IF receiver.Belt /\ canAcceptNewItem(h, localDirection)
        THEN [ok |-> TRUE, held |-> takeNewItem(h, item, localDirection),
              calls |-> beltCalls \o
                        <<[fn |-> "Belt.takeNewItem", on |-> r, item |-> item,
                           direction |-> localDirection]>>]
        ELSE IF receiver.ItemProcessor
                /\ tryTakeItem(h, item, slotIndex, localDirection)
        THEN [ok |-> TRUE, held |-> Take(h, "ItemProcessor", item),
              calls |-> beltCalls \o procCalls]
        ELSE IF receiver.UndergroundBelt /\ tryAcceptExternalItem(h, item)
        THEN [ok |-> TRUE, held |-> Take(h, "UndergroundBelt", item),
              calls |-> beltCalls \o procCalls \o relayCalls]
        ELSE [ok |-> FALSE, held |-> h,
              calls |-> beltCalls \o procCalls \o relayCalls]

(***************************************************************************)
(* ItemEjectorSystem.update: the body of the loop for one slot.            *)
(***************************************************************************)
\* ejectorSlot.progress = Math_min(1, ejectorSlot.progress + progressGrowth)
\* an advance that forgets to clamp at 1
AdvanceProgress_Unclamped(progress, progressGrowth) ==
    fadd(progress, progressGrowth)

\* an advance that forgets to add the growth
AdvanceProgress_NoGrowth(progress, progressGrowth) == Math_min(One, progress)

\* an advance that wraps around at 1 instead of stopping there
AdvanceProgress_Wrap(progress, progressGrowth) ==
    IF fless(fadd(progress, progressGrowth), One)
    THEN fadd(progress, progressGrowth)
    ELSE Dbl(fadd(progress, progressGrowth).hi - Limb,
             fadd(progress, progressGrowth).lo)

AdvanceProgress(progress, progressGrowth) ==
    Math_min(One, fadd(progress, progressGrowth))

\* if (ejectorSlot.progress < 1.0) continue
\* a test that never skips the handoff
StillEjecting_Never(progress) == FALSE
\* progress <= 1.0 in place of progress < 1.0
StillEjecting_AtOne(progress) == ~fless(One, progress)

\* a test against 0.5 in place of 1.0
StillEjecting_BelowHalf(progress) == fless(progress, Half)

StillEjecting(progress) == fless(progress, One)

\* the tile the slot ejects to
EjectTargetTile(staticComp, slot) ==
    add(localTileToWorld(staticComp, slot.pos),
        enumDirectionToVector(localDirectionToWorld(staticComp, slot.direction)))

\* if (this.tryPassOverItem(...)) ejectorSlot.item = null
\* a handoff after which the slot keeps its item
ItemAfterPass_Keep(item, ok) == item

\* a slot that is cleared whether or not the receiver took the item
ItemAfterPass_Always(item, ok) == null

ItemAfterPass(item, ok) == IF ok THEN null ELSE item

\* a step that sets the progress back to 0 when the item is handed off
StepResult_ResetOnHandoff(slot, h, calls, outcome) ==
    [slot |-> IF outcome = "handoff" THEN [slot EXCEPT !.progress = Zero]
              ELSE slot,
     held |-> h, calls |-> calls, outcome |-> outcome]

StepResult(slot, h, calls, outcome) ==
    [slot |-> slot, held |-> h, calls |-> calls, outcome |-> outcome]

\* the negotiation with the entity that the grid returned for the target
\* tile (from "if (!targetEntity)" on)
Negotiate(w, e, slot, advanced, h, targetEntity) ==
    LET staticComp == w.entities[e].StaticMapEntity
        ejectingItem == slot.item
        ejectSlotWsDirection ==
            localDirectionToWorld(staticComp, slot.direction)
        ejectSlotTargetWsTile == EjectTargetTile(staticComp, slot)
        lookup == <<[fn |-> "getTileContent", tile |-> ejectSlotTargetWsTile]>>
    IN
    IF targetEntity = NoEntity
    THEN StepResult(advanced, h, lookup, "noEntity")
    ELSE
    LET target == w.entities[targetEntity]
        targetAcceptorComp == target.ItemAcceptor
        targetStaticComp == target.StaticMapEntity
    IN
    IF ~targetAcceptorComp.present
    THEN StepResult(advanced, h, lookup, "noAcceptor")
    ELSE
    LET localTile == worldToLocalTile(targetStaticComp, ejectSlotTargetWsTile)
        localDir == worldDirectionToLocal(targetStaticComp, ejectSlotWsDirection)
        matchingSlot == findMatchingSlot(targetAcceptorComp, localTile, localDir)
        matched == lookup \o
            <<[fn |-> "findMatchingSlot", on |-> targetEntity,
               tile |-> localTile, direction |-> localDir]>>
    IN
    IF ~matchingSlot.found
    THEN StepResult(advanced, h, matched, "noMatch")
    ELSE
    LET asked == matched \o
            <<[fn |-> "canAcceptItem", on |-> targetEntity,
               index |-> matchingSlot.index, item |-> ejectingItem]>>
    IN
    IF ~canAcceptItem(targetAcceptorComp, matchingSlot.index, ejectingItem)
    THEN StepResult(advanced, h, asked, "cannotAccept")
    ELSE
    LET pass == tryPassOverItem(ejectingItem, targetEntity, target,
                                matchingSlot.index,
                                matchingSlot.acceptedDirection, h)
    IN  StepResult([advanced EXCEPT !.item = ItemAfterPass(@, pass.ok)],
                   pass.held, asked \o pass.calls,
                   IF pass.ok THEN "handoff" ELSE "refused")

SlotStep(w, e, slot, h, progressGrowth) ==
    LET staticComp == w.entities[e].StaticMapEntity
        ejectingItem == slot.item
    IN
    IF ejectingItem = null THEN StepResult(slot, h, <<>>, "idle")
    ELSE
    LET advanced == [slot EXCEPT
                        !.progress = AdvanceProgress(@, progressGrowth)]
    IN
    IF StillEjecting(advanced.progress)
    THEN StepResult(advanced, h, <<>>, "ejecting")
    ELSE
    \* the grid is asked once, and the entity it returns is negotiated with
    CHOOSE res \in
        {Negotiate(w, e, slot, advanced, h, targetEntity) :
            targetEntity \in
                {getTileContent(w, EjectTargetTile(staticComp, slot))}} : TRUE

\* a loop that leaves an entity after its first slot
NextCursor_FirstSlotOnly(w, sl, c) ==
    IF c.i < Len(w.allEntities) THEN [i |-> c.i + 1, s |-> 1] ELSE Idle

\* the slot update() visits after the one at c, in entity-list order and
\* then slot-array order
NextCursor(w, sl, c) ==
    IF c.s < Len(sl[w.allEntities[c.i]]) THEN [i |-> c.i, s |-> c.s + 1]
    ELSE IF c.i < Len(w.allEntities) THEN [i |-> c.i + 1, s |-> 1]
    ELSE Idle

HistAfter(h, outcome) ==
    CASE outcome = "idle" -> h
      [] outcome = "ejecting" ->
            [h EXCEPT !.waited = Min(@ + 1, MaxWaited)]
      [] outcome = "handoff" -> NoHist
      [] OTHER -> [h EXCEPT !.blocked = Min(@ + 1, MaxBlocked)]

(***************************************************************************)
(* Actions.                                                                *)
(***************************************************************************)
\* update() starts a pass over all ejectors
UpdateBegin ==
    /\ cursor = Idle
    /\ Len(world.allEntities) > 0
    /\ cursor' = [i |-> 1, s |-> 1]
    /\ lastStep' = NoStep
    /\ passLog' = <<>>
    /\ UNCHANGED <<world, growth, slots, held, hist, geoVars>>

\* update() handles the slot at the cursor and moves on
UpdateSlot ==
    /\ cursor # Idle
    /\ LET e == world.allEntities[cursor.i]
           slot == slots[e][cursor.s]
       IN  \E res \in {SlotStep(world, e, slot, held, growth)} :
           /\ slots' = [slots EXCEPT ![e][cursor.s] = res.slot]
           /\ held' = res.held
           /\ hist' = [hist EXCEPT ![e][cursor.s] = HistAfter(@, res.outcome)]
           /\ lastStep' = [entity |-> e, slot |-> cursor.s,
                           outcome |-> res.outcome, calls |-> res.calls,
                           item |-> slot.item,
                           waited |-> hist[e][cursor.s].waited,
                           blocked |-> hist[e][cursor.s].blocked]
           /\ passLog' = Append(passLog,
                  [entity |-> e, slot |-> cursor.s, outcome |-> res.outcome,
                   item |-> slot.item, blocked |-> hist[e][cursor.s].blocked])
           /\ cursor' = NextCursor(world, slots, cursor)
    /\ UNCHANGED <<world, growth, geoVars>>

SlotKeys == UNION {{<<e, s>> : s \in 1..Len(slots[e])} : e \in DOMAIN slots}
ItemsInSlots == {slots[k[1]][k[2]].item : k \in SlotKeys} \ {null}
ItemsHeld == UNION {{held[cap][k] : k \in 1..Len(held[cap])} : cap \in Caps}

\* ItemEjectorComponent.tryEject: an empty slot takes a new item and its
\* progress starts again at 0
Insert(e, s, item) ==
    /\ cursor = Idle
    /\ slots[e][s].item = null
    /\ item \notin ItemsInSlots \cup ItemsHeld
    /\ slots' = [slots EXCEPT ![e][s].item = item, ![e][s].progress = Zero]
    /\ hist' = [hist EXCEPT ![e][s] = NoHist]
    /\ lastStep' = NoStep
    /\ passLog' = <<>>
    /\ UNCHANGED <<world, growth, held, cursor, geoVars>>

\* An insertion that sets the item of an empty slot and leaves the slot's
\* progress as it is.
InsertKeepingProgress(e, s, item) ==
    /\ cursor = Idle
    /\ slots[e][s].item = null
    /\ item \notin ItemsInSlots \cup ItemsHeld
    /\ slots' = [slots EXCEPT ![e][s].item = item]
    /\ hist' = [hist EXCEPT ![e][s] = NoHist]
    /\ lastStep' = NoStep
    /\ passLog' = <<>>
    /\ UNCHANGED <<world, growth, held, cursor, geoVars>>

\* The receiver's own system moves the oldest item of a capability on,
\* which makes room for another one.
Drain(cap) ==
    /\ cursor = Idle
    /\ held[cap] # <<>>
    /\ held' = [held EXCEPT ![cap] = Tail(@)]
    /\ lastStep' = NoStep
    /\ passLog' = <<>>
    /\ UNCHANGED <<world, growth, slots, hist, cursor, geoVars>>

(***************************************************************************)
(* ItemEjectorSystem.drawSingleEntity: the draw calls for one entity, in   *)
(* the order of its slots.  A position is held in eighths, of a tile and   *)
(* then of a pixel: a frame is drawn at a progress that is a multiple of   *)
(* 0.25, for which the double arithmetic of drawSingleEntity is exact.     *)
(***************************************************************************)
PerTile == 8
globalConfig_tileSize == 32

\* 0.5 * progress, in eighths
HalfOfProgress(progress) == progress.hi \div (Limb \div 4)

\* a draw position that leaves the entity's rotation out
DrawTile_NoRotation(staticComp, slot) ==
    LET realDirectionVector == enumDirectionToVector(slot.direction)
    IN  Vec(PerTile * (staticComp.origin.x + slot.pos.x) + PerTile \div 2
                + realDirectionVector.x * HalfOfProgress(slot.progress),
            PerTile * (staticComp.origin.y + slot.pos.y) + PerTile \div 2
                + realDirectionVector.y * HalfOfProgress(slot.progress))

\* tileX and tileY
DrawTile(staticComp, slot) ==
    LET realPosition ==
            rotateFastMultipleOf90(slot.pos, staticComp.rotation)
        realDirection ==
            transformDirectionFromMultipleOf90(slot.direction,
                                               staticComp.rotation)
        realDirectionVector == enumDirectionToVector(realDirection)
    IN  Vec(PerTile * (staticComp.origin.x + realPosition.x) + PerTile \div 2
                + realDirectionVector.x * HalfOfProgress(slot.progress),
            PerTile * (staticComp.origin.y + realPosition.y) + PerTile \div 2
                + realDirectionVector.y * HalfOfProgress(slot.progress))

HoldsItem(slot) == slot.item # null

drawSingleEntity(w, sl, e) ==
    LET staticComp == w.entities[e].StaticMapEntity
        ejecting == SelectSeq(sl[e], HoldsItem)
    IN  [k \in 1..Len(ejecting) |->
            [item |-> ejecting[k].item,
             worldX |-> DrawTile(staticComp, ejecting[k]).x
                            * globalConfig_tileSize,
             worldY |-> DrawTile(staticComp, ejecting[k]).y
                            * globalConfig_tileSize]]

\* ItemEjectorSystem.draw reaches the entity in a frame, which is drawn
\* between two passes of update()
Draw(e) ==
    /\ cursor = Idle
    /\ drawn' = [entity |-> e, calls |-> drawSingleEntity(world, slots, e)]
    /\ UNCHANGED <<tickVars, comp, out>>

(***************************************************************************)
(* A busy line: every tick the receiver moves at most one item on, then    *)
(* every empty ejector slot is refilled, then update() runs.               *)
(***************************************************************************)
AllSlotsFull == \A k \in SlotKeys : slots[k[1]][k[2]].item # null

BusyBegin ==
    /\ AllSlotsFull
    /\ passLog = <<>>
    /\ UpdateBegin

BusyInsert(e, s, item) ==
    /\ passLog = <<>> \/ ItemsHeld = {}
    /\ Insert(e, s, item)

BusyDrain(cap) ==
    /\ passLog # <<>>
    /\ Drain(cap)

(***************************************************************************)
(* The transform of one component, call by call.                           *)
(***************************************************************************)
RotationInputs == ValidRotations \cup {45, 360, -90, 450}
OriginalRotationInputs == {0, 45}

NoComponent == [rotation |-> -1]

\* new StaticMapEntityComponent({origin, tileSize, rotation, originalRotation})
Construct(origin, tileSize, rotation, originalRotation) ==
    /\ comp = NoComponent
    /\ ConstructorAccepts(rotation, originalRotation)
    /\ comp' = StaticMapEntityComponent(origin, tileSize, rotation,
                                        originalRotation)
    /\ out' = NoOut
    /\ UNCHANGED <<drawn, tickVars>>

\* A call is made on the fresh component with any argument, or on the
\* result of the opposite conversion (a round trip).
Args(all, opposite) ==
    IF comp = NoComponent THEN {}
    ELSE IF out = NoOut THEN all
    ELSE IF out.op = opposite /\ out.ok /\ ~out.chained THEN {out.val}
    ELSE {}

Called(op, arg, angle, val) ==
    [op |-> op, arg |-> arg, angle |-> angle, ok |-> AngleValid(angle),
     val |-> IF AngleValid(angle) THEN val ELSE arg,
     chained |-> out # NoOut,
     orig |-> IF out # NoOut THEN out.arg ELSE arg]

LocalTileToWorld(t) ==
    /\ out' = Called("localTileToWorld", t, ApplyAngle(comp),
                     localTileToWorld(comp, t))
    /\ UNCHANGED <<comp, drawn, tickVars>>

WorldToLocalTile(t) ==
    /\ out' = Called("worldToLocalTile", t, UnapplyAngle(comp),
                     worldToLocalTile(comp, t))
    /\ UNCHANGED <<comp, drawn, tickVars>>

LocalDirectionToWorld(d) ==
    /\ out' = Called("localDirectionToWorld", d, ApplyAngle(comp),
                     localDirectionToWorld(comp, d))
    /\ UNCHANGED <<comp, drawn, tickVars>>

WorldDirectionToLocal(d) ==
    /\ out' = Called("worldDirectionToLocal", d, UnapplyAngle(comp),
                     worldDirectionToLocal(comp, d))
    /\ UNCHANGED <<comp, drawn, tickVars>>

GetTileSpaceBounds ==
    /\ comp # NoComponent
    /\ out = NoOut
    /\ out' = [op |-> "getTileSpaceBounds", ok |-> TRUE, chained |-> FALSE,
               val |-> getTileSpaceBounds(comp)]
    /\ UNCHANGED <<comp, drawn, tickVars>>

(***************************************************************************)
(* Specifications.                                                         *)
(***************************************************************************)
BothEjectors == <<"E1", "E2">>
Worlds ==
    {World(rotE1, rotR, capsR, BothEjectors) :
        rotE1 \in ValidRotations, rotR \in {0, 90, 180}, capsR \in SUBSET Caps}
Growths == {Half, One}

\* the scenario of the spec: one ejector at (0,0), not rotated, ejecting to
\* the right into a belt at (1,0)
TimingWorlds == {World(0, 0, {"Belt"}, <<"E1">>)}
TimingGrowths == {Tenth, Quarter, Half, One}

\* one ejector before a belt, at every emission speed from 0 on
ProgressGrowths == {Zero, Tenth, Quarter, Half, One}

\* the ejector with two slots and E2, in either order of the system's list,
\* all three slots ejecting into the receiver at (1,0)
OrderWorlds ==
    {World(0, 0, capsR, ejectors) :
        capsR \in {{"Belt"}, {"ItemProcessor"}, {"Belt", "UndergroundBelt"}},
        ejectors \in {<<"E3", "E2">>, <<"E2", "E3">>}}

InitTick(worlds, growths) ==
    /\ world \in worlds
    /\ growth \in growths
    /\ slots = [e \in {world.allEntities[i] : i \in 1..Len(world.allEntities)}
                  |-> InitialSlots(e)]
    /\ held = [cap \in Caps |-> <<>>]
    /\ hist = [e \in DOMAIN slots |-> [s \in 1..Len(slots[e]) |-> NoHist]]
    /\ cursor = Idle
    /\ lastStep = NoStep
    /\ passLog = <<>>
    /\ comp = NoComponent
    /\ out = NoOut
    /\ drawn = NoDraw

Init == InitTick(Worlds, Growths)
InitTiming == InitTick(TimingWorlds, TimingGrowths)
\* both ejectors eject into the receiver, which exposes one capability; an
\* item is at progress 1 in the tick it is inserted in
BusyWorlds == {World(0, 0, {cap}, BothEjectors) : cap \in Caps}
InitBusy == InitTick(BusyWorlds, {One})
InitProgress == InitTick(TimingWorlds, ProgressGrowths)
InitOrder == InitTick(OrderWorlds, Growths)
\* the ejector of two tiles at every rotation, and E2 before the belt
DrawWorlds ==
    {World(rotE1, 0, {"Belt"}, <<"E4", "E2">>) : rotE1 \in ValidRotations}
DrawGrowths == {Quarter, Half}
InitDraw == InitTick(DrawWorlds, DrawGrowths)
InitGeo == InitTick({World(0, 0, {"Belt"}, <<"E1">>)}, {Half})

Next ==
    \/ UpdateBegin
    \/ UpdateSlot
    \/ \E e \in DOMAIN slots : \E s \in 1..Len(slots[e]) : \E item \in Items :
          Insert(e, s, item)
    \/ \E cap \in Caps : Drain(cap)

NextReuse ==
    \/ Next
    \/ \E e \in DOMAIN slots : \E s \in 1..Len(slots[e]) : \E item \in Items :
          InsertKeepingProgress(e, s, item)

NextBusy ==
    \/ BusyBegin
    \/ UpdateSlot
    \/ \E e \in DOMAIN slots : \E s \in 1..Len(slots[e]) : \E item \in Items :
          BusyInsert(e, s, item)
    \/ \E cap \in Caps : BusyDrain(cap)

\* some ticks, and then a frame in which entities are drawn
NextDraw ==
    \/ drawn = NoDraw /\ Next
    \/ \E e \in DOMAIN slots : Draw(e)

NextGeo ==
    \/ /\ comp = NoComponent
       /\ \E origin \in Tiles, tileSize \in Sizes, rotation \in RotationInputs,
             originalRotation \in OriginalRotationInputs :
             Construct(origin, tileSize, rotation, originalRotation)
    \/ \E t \in Args(Tiles, "worldToLocalTile") : LocalTileToWorld(t)
    \/ \E t \in Args(Tiles, "localTileToWorld") : WorldToLocalTile(t)
    \/ \E d \in Args(enumDirection, "worldDirectionToLocal") :
          LocalDirectionToWorld(d)
    \/ \E d \in Args(enumDirection, "localDirectionToWorld") :
          WorldDirectionToLocal(d)
    \/ GetTileSpaceBounds

Spec == Init /\ [][Next]_vars
SpecTiming == InitTiming /\ [][Next]_vars
SpecProgress == InitProgress /\ [][Next]_vars
\* the game loop runs update() in every tick, and the belt's own system
\* moves an item on again and again when it holds one
SpecLive ==
    /\ InitProgress
    /\ [][Next]_vars
    /\ WF_vars(UpdateBegin)
    /\ WF_vars(UpdateSlot)
    /\ SF_vars(\E cap \in Caps : Drain(cap))
SpecReuse == InitProgress /\ [][NextReuse]_vars
SpecOrder == InitOrder /\ [][Next]_vars
\* the game loop runs update() in every tick, for ever
SpecBusy == InitBusy /\ [][NextBusy]_vars /\ WF_vars(NextBusy)
SpecGeo == InitGeo /\ [][NextGeo]_vars
SpecDraw == InitDraw /\ [][NextDraw]_vars

(***************************************************************************)
(* The transform: round trips, consistency and bounds (under SpecGeo).     *)
(***************************************************************************)
Constructed == comp # NoComponent /\ comp.rotation \in ValidRotations

\* the component has just been constructed: what holds of the component
\* alone, for every argument, is stated of this state
Fresh == Constructed /\ out = NoOut

TileRoundTrip(c) ==
    \A t \in Tiles :
        /\ worldToLocalTile(c, localTileToWorld(c, t)) = t
        /\ localTileToWorld(c, worldToLocalTile(c, t)) = t

\* a conversion made on the result of the opposite one gives the first
\* argument back
CallRoundTrip(ops) ==
    (out.op \in ops /\ out.chained) => (out.ok /\ out.val = out.orig)

\* C7 as stated: the tile conversions are inverse to each other for every
\* rotation in {0, 90, 180, 270}, every origin and every tile, and the angle
\* of the inverse rotation is (360 - rotation) mod 360, one of
\* {0, 90, 180, 270} also for rotation 0.
C7_InverseAngleReduced ==
    /\ Fresh => TileRoundTrip(comp)
    /\ Constructed =>
        /\ CallRoundTrip({"localTileToWorld", "worldToLocalTile"})
        /\ out.op = "worldToLocalTile" =>
              /\ out.angle = (360 - comp.rotation) % 360
              /\ out.angle \in ValidRotations

\* C7 amended: the tile conversions are inverse to each other for every
\* rotation in {0, 90, 180, 270}, every origin and every tile; the angle of
\* the inverse rotation is 360 - rotation, not reduced mod 360: one of
\* {90, 180, 270, 360}, and 360 for rotation 0.
C7_TileRoundTrip ==
    /\ Fresh => TileRoundTrip(comp)
    /\ Constructed =>
        /\ CallRoundTrip({"localTileToWorld", "worldToLocalTile"})
        /\ UnapplyAngle(comp) = 360 - comp.rotation
        /\ UnapplyAngle(comp) \in {90, 180, 270, 360}
        /\ out.op = "worldToLocalTile" =>
              /\ out.angle = 360 - comp.rotation
              /\ comp.rotation = 0 => out.angle = 360

\* an unrotated component away from (0,0) converted a world tile back to
\* the local tile it came from, with 360 as the angle
C7_Witness ==
    /\ Constructed
    /\ comp.rotation = 0
    /\ comp.origin = Vec(1, 1)
    /\ out.op = "worldToLocalTile"
    /\ out.chained
    /\ out.angle = 360
    /\ out.val = out.orig
    /\ out.arg # out.val

\* C8: the direction conversions are inverse to each other for every
\* rotation in {0, 90, 180, 270} and every cardinal direction.
C8_DirectionRoundTrip ==
    /\ Fresh =>
          \A d \in enumDirection :
              /\ worldDirectionToLocal(comp, localDirectionToWorld(comp, d)) = d
              /\ localDirectionToWorld(comp, worldDirectionToLocal(comp, d)) = d
    /\ Constructed =>
          CallRoundTrip({"localDirectionToWorld", "worldDirectionToLocal"})

\* a component rotated by 90 converted a world direction back to the local
\* direction it came from
C8_Witness ==
    /\ Constructed
    /\ comp.rotation = 90
    /\ out.op = "worldDirectionToLocal"
    /\ out.chained
    /\ out.orig = "right"
    /\ out.arg = "bottom"
    /\ out.val = "right"

\* C9: directions and positions rotate alike: the unit vector of the world
\* direction of d is the rotated unit vector of d, so the tile update()
\* ejects to is the world tile of the slot's tile plus the unit vector of d;
\* at origin (0,0) with rotation 90 a slot at (0,0) ejecting to the right
\* ejects downwards, to (0,1).
C9_DirectionMatchesPosition ==
    /\ Fresh =>
          \A d \in enumDirection :
              /\ enumDirectionToVector(localDirectionToWorld(comp, d))
                    = applyRotationToVector(comp, enumDirectionToVector(d))
              /\ \A pos \in Tiles :
                    EjectTargetTile(comp, EjectorSlot(pos, d))
                        = localTileToWorld(comp,
                                           add(pos, enumDirectionToVector(d)))
    /\ Constructed =>
        /\ (out.op = "localDirectionToWorld" /\ ~out.chained) =>
              enumDirectionToVector(out.val)
                  = applyRotationToVector(comp, enumDirectionToVector(out.arg))
        /\ (comp.rotation = 90 /\ comp.origin = Vec(0, 0)) =>
              /\ localDirectionToWorld(comp, "right") = "bottom"
              /\ EjectTargetTile(comp, EjectorSlot(Vec(0, 0), "right"))
                    = Vec(0, 1)

\* the component at (0,0) rotated by 90 converted the direction right
C9_Witness ==
    /\ Constructed
    /\ comp.rotation = 90
    /\ comp.origin = Vec(0, 0)
    /\ out.op = "localDirectionToWorld"
    /\ out.arg = "right"
    /\ out.val = "bottom"

\* C10: for every rotation in {0, 90, 180, 270}, origin and footprint the
\* bounds have the footprint's area, width and height swapped exactly for
\* 90 and 270, and contain the origin tile.
C10_BoundsAreaAndOrigin ==
    Constructed =>
        LET r == getTileSpaceBounds(comp)
        IN  /\ r.w * r.h = comp.tileSize.x * comp.tileSize.y
            /\ comp.rotation \in {90, 270} =>
                  (r.w = comp.tileSize.y /\ r.h = comp.tileSize.x)
            /\ comp.rotation \in {0, 180} =>
                  (r.w = comp.tileSize.x /\ r.h = comp.tileSize.y)
            /\ RectContains(r, comp.origin)
            /\ out.op = "getTileSpaceBounds" => out.val = r

\* the bounds of a 2 x 1 component rotated by 90 were taken: 1 x 2
C10_Witness ==
    /\ Constructed
    /\ comp.rotation = 90
    /\ comp.tileSize = Vec(2, 1)
    /\ out.op = "getTileSpaceBounds"
    /\ out.val.w = 1
    /\ out.val.h = 2

\* C11: every component that exists has rotation and originalRotation in
\* {0, 90, 180, 270}, the constructor failing for every other value (45,
\* -90, 360, 450), so that getTileSpaceBounds() never reaches its "Invalid
\* rotation" assertion on a component that exists.
C11_RotationsValid ==
    comp # NoComponent =>
        /\ comp.rotation \in ValidRotations
        /\ comp.originalRotation \in ValidRotations
        /\ getTileSpaceBounds(comp) # InvalidRotation
        /\ out.op = "getTileSpaceBounds" => out.val # InvalidRotation

\* the tiles of a rectangle, and the world tiles of the local tiles of
\* the footprint
TilesIn(r) == {Vec(x, y) : x \in r.x..(r.x + r.w - 1), y \in r.y..(r.y + r.h - 1)}
FootprintTiles(c) ==
    {localTileToWorld(c, Vec(x, y)) :
        x \in 0..(c.tileSize.x - 1), y \in 0..(c.tileSize.y - 1)}

\* C18: for every rotation in {0, 90, 180, 270}, origin and footprint the
\* tiles inside getTileSpaceBounds() are exactly the world tiles of the
\* local tiles (x, y) with 0 <= x < w and 0 <= y < h.
C18_BoundsAreFootprint ==
    /\ Fresh => TilesIn(getTileSpaceBounds(comp)) = FootprintTiles(comp)
    /\ (Constructed /\ out.op = "getTileSpaceBounds") =>
          /\ TilesIn(out.val) = FootprintTiles(comp)
          /\ \A t \in Tiles :
                RectContains(out.val, t) <=> t \in FootprintTiles(comp)
          /\ (comp.rotation = 270 /\ comp.origin = Vec(0, 0)
                /\ comp.tileSize = Vec(2, 1)) =>
                TilesIn(out.val) = {Vec(0, 0), Vec(0, -1)}

\* the bounds of a 2 x 1 component at (0,0) rotated by 270 were taken: the
\* tiles (0,0) and (0,-1)
C18_Witness ==
    /\ Constructed
    /\ comp.rotation = 270
    /\ comp.origin = Vec(0, 0)
    /\ comp.tileSize = Vec(2, 1)
    /\ out.op = "getTileSpaceBounds"
    /\ TilesIn(out.val) = {Vec(0, 0), Vec(0, -1)}

(***************************************************************************)
(* The handoff: what a slot step of update() called and changed.           *)
(***************************************************************************)
Failures == {"noEntity", "noAcceptor", "noMatch", "cannotAccept", "refused"}
Attempted == lastStep.outcome \in {"handoff", "refused"}

Priority(cap) ==
    CASE cap = "Belt" -> 1
      [] cap = "ItemProcessor" -> 2
      [] cap = "UndergroundBelt" -> 3

\* the capability a call asks to take the item, if it is such a call
IsTry(c) ==
    c.fn \in {"Belt.canAcceptNewItem", "ItemProcessor.tryTakeItem",
              "UndergroundBelt.tryAcceptExternalItem"}
TriedCap(c) ==
    CASE c.fn = "Belt.canAcceptNewItem" -> "Belt"
      [] c.fn = "ItemProcessor.tryTakeItem" -> "ItemProcessor"
      [] c.fn = "UndergroundBelt.tryAcceptExternalItem" -> "UndergroundBelt"

\* the capabilities the latest step asked, in the order of the calls
Tried == LET t == SelectSeq(lastStep.calls, IsTry)
         IN  [k \in 1..Len(t) |-> TriedCap(t[k])]
TriedSet == {Tried[k] : k \in 1..Len(Tried)}

Exposed(e) == {cap \in Caps : world.entities[e][cap]}
FirstOf(S) == CHOOSE c \in S : \A d \in S : Priority(c) <= Priority(d)

\* the receiver of the latest step, once canAcceptItem was asked
StepReceiver == lastStep.calls[3].on
StepSlot == slots[lastStep.entity][lastStep.slot]

SlotCount(item) ==
    Cardinality({k \in SlotKeys : slots[k[1]][k[2]].item = item})
HeldIn(cap, item) ==
    Cardinality({k \in 1..Len(held[cap]) : held[cap][k] = item})
HeldCount(item) ==
    HeldIn("Belt", item) + HeldIn("ItemProcessor", item)
        + HeldIn("UndergroundBelt", item)

C2_Conservation ==
    /\ \A item \in Items : SlotCount(item) + HeldCount(item) <= 1
    /\ lastStep.outcome = "handoff" =>
          /\ StepSlot.item = null
          /\ lastStep.item # null
          /\ SlotCount(lastStep.item) = 0
          /\ HeldCount(lastStep.item) = 1
          /\ lastStep.calls[Len(lastStep.calls)].fn \in
                {"Belt.takeNewItem", "ItemProcessor.tryTakeItem",
                 "UndergroundBelt.tryAcceptExternalItem"}
    /\ lastStep.outcome \in Failures \cup {"ejecting"} =>
          /\ StepSlot.item = lastStep.item
          /\ lastStep.item # null
          /\ SlotCount(lastStep.item) = 1
          /\ HeldCount(lastStep.item) = 0
    /\ lastStep.outcome = "idle" =>
          (lastStep.item = null /\ StepSlot.item = null)

\* an item was handed off while another slot holds its own item
C2_Witness ==
    /\ lastStep.outcome = "handoff"
    /\ StepSlot.item = null
    /\ HeldCount(lastStep.item) = 1
    /\ \E k \in SlotKeys : slots[k[1]][k[2]].item \notin {null, lastStep.item}

\* C3: a slot that holds an item at progress 1 and whose handoff fails (no
\* entity, no ItemAcceptor, no matching slot, canAcceptItem false, or every
\* capability refuses) is left as it was, and so are the receiver's items
\* and every other slot.
C3_FailureChangesNothing ==
    [][(/\ cursor # Idle
        /\ slots[world.allEntities[cursor.i]][cursor.s].item # null
        /\ slots[world.allEntities[cursor.i]][cursor.s].progress = One
        /\ lastStep'.outcome # "handoff")
       => (/\ lastStep'.outcome \in Failures
           /\ slots' = slots
           /\ held' = held)]_vars

\* a blocked slot was refused by the receiver for the third tick in a row
C3_Witness ==
    /\ lastStep.outcome = "refused"
    /\ lastStep.blocked = 2
    /\ StepSlot.item = lastStep.item
    /\ StepSlot.progress = One

\* C4: a slot whose progress is still below 1 after the advance makes no
\* grid lookup, no acceptor query and no capability call, and nothing but
\* its progress changes.
C4_NoLookupBelowOne ==
    [][(/\ cursor # Idle
        /\ slots[world.allEntities[cursor.i]][cursor.s].item # null
        /\ fless(slots'[world.allEntities[cursor.i]][cursor.s].progress, One))
       => (/\ lastStep'.calls = <<>>
           /\ held' = held
           /\ slots' = [slots EXCEPT
                  ![world.allEntities[cursor.i]][cursor.s].progress =
                      slots'[world.allEntities[cursor.i]][cursor.s].progress])
      ]_vars

\* an item at progress 0.5 after its first tick
C4_Witness ==
    /\ lastStep.outcome = "ejecting"
    /\ lastStep.item # null
    /\ StepSlot.item = lastStep.item
    /\ StepSlot.progress = Half
    /\ lastStep.calls = <<>>

(***************************************************************************)
(* Timing (under SpecTiming: one ejector feeding a belt at (1,0)).         *)
(***************************************************************************)
\* N = 1 / g for the growths of the scenario
TicksToOne(g) ==
    CASE g = Tenth -> 10
      [] g = Quarter -> 4
      [] g = Half -> 2
      [] g = One -> 1

\* C5: with growth g and N = 1 / g, an item inserted at progress 0 before
\* an accepting belt is still held after each of the first N - 1 update()
\* calls and is handed off during the N-th, never earlier and never later.
C5_HandoffAtTickN ==
    /\ lastStep.outcome = "ejecting" =>
          lastStep.waited + 1 < TicksToOne(growth)
    /\ (lastStep.outcome = "handoff" /\ lastStep.blocked = 0) =>
          lastStep.waited + 1 = TicksToOne(growth)

\* C6: before a receiver that is a belt, a slot at progress 1 asks the belt
\* once in every tick; while the belt refuses the item stays in the slot at
\* progress 1, and it is handed off in the first tick in which the belt
\* accepts.
C6_BlockedUntilAccepted ==
    [][(/\ cursor # Idle
        /\ Exposed("R") = {"Belt"}
        /\ slots[world.allEntities[cursor.i]][cursor.s].item # null
        /\ ~fless(slots'[world.allEntities[cursor.i]][cursor.s].progress, One))
       => LET e == world.allEntities[cursor.i]
              item == slots[e][cursor.s].item
              asks == SelectSeq(lastStep'.calls, IsTry)
          IN  /\ Len(asks) = 1
              /\ asks[1].fn = "Belt.canAcceptNewItem"
              /\ IF Len(held["Belt"]) < Capacity
                 THEN /\ lastStep'.outcome = "handoff"
                      /\ slots'[e][cursor.s].item = null
                      /\ held' = [held EXCEPT !["Belt"] = Append(@, item)]
                 ELSE /\ lastStep'.outcome = "refused"
                      /\ slots'[e][cursor.s].item = item
                      /\ slots'[e][cursor.s].progress = One
                      /\ held' = held
      ]_vars

\* the belt refused for 3 ticks and took the item in the fourth
C6_Witness ==
    /\ Exposed("R") = {"Belt"}
    /\ lastStep.outcome = "handoff"
    /\ lastStep.blocked = 3
    /\ HeldIn("Belt", lastStep.item) = 1

(***************************************************************************)
(* The order of a pass (under SpecOrder: an ejector with two slots and an  *)
(* ejector with one, all ejecting into the receiver at (1,0)).             *)
(***************************************************************************)
SlotsOf(i) == Len(slots[world.allEntities[i]])

RECURSIVE SlotsBefore(_)
SlotsBefore(i) == IF i <= 1 THEN 0 ELSE SlotsBefore(i - 1) + SlotsOf(i - 1)

\* the place of slot s of the i-th entity in entity-list order and then
\* slot-array order
Rank(i, s) == SlotsBefore(i) + s
TotalSlots == SlotsBefore(Len(world.allEntities) + 1)
KeyAt(k) ==
    CHOOSE key \in {<<i, s>> : i \in 1..Len(world.allEntities), s \in 1..2} :
        key[2] <= SlotsOf(key[1]) /\ Rank(key[1], key[2]) = k

CallsOf(fn) == Len(SelectSeq(lastStep.calls, LAMBDA c : c.fn = fn))

\* C12: in a pass of update() the slots are visited in entity-list order and
\* then slot-array order, each exactly once, and a slot step makes at most
\* one handoff attempt; so a slot that the receiver refuses is never
\* followed, in the same pass, by a later slot that the receiver takes an
\* item from: of two blocked slots the earlier one hands off.
C12_PassOrder ==
    /\ Len(passLog) <= TotalSlots
    /\ \A k \in 1..Len(passLog) :
          /\ passLog[k].entity = world.allEntities[KeyAt(k)[1]]
          /\ passLog[k].slot = KeyAt(k)[2]
    /\ cursor # Idle => Rank(cursor.i, cursor.s) = Len(passLog) + 1
    /\ (cursor = Idle /\ passLog # <<>>) => Len(passLog) = TotalSlots
    /\ CallsOf("getTileContent") <= 1
    /\ CallsOf("findMatchingSlot") <= 1
    /\ CallsOf("canAcceptItem") <= 1
    /\ Cardinality(TriedSet) = Len(Tried)
    /\ \A j, k \in 1..Len(passLog) :
          (j < k /\ passLog[j].outcome = "refused") =>
              passLog[k].outcome # "handoff"

\* the two slots of one ejector both held an item at progress 1 before a
\* receiver with room for one: in a complete pass the first one handed its
\* item off and the second one was refused
C12_Witness ==
    /\ cursor = Idle
    /\ Len(passLog) = 3
    /\ passLog[1].entity = "E3" /\ passLog[2].entity = "E3"
    /\ passLog[1].slot = 1 /\ passLog[2].slot = 2
    /\ passLog[1].item # null /\ passLog[2].item # null
    /\ passLog[1].outcome = "handoff"
    /\ passLog[2].outcome = "refused"
    /\ passLog[3].outcome = "idle"

(***************************************************************************)
(* Starvation (under SpecBusy).                                            *)
(***************************************************************************)
HandedOffBy(e) == lastStep.entity = e /\ lastStep.outcome = "handoff"
RefusedAt(e) == lastStep.entity = e /\ lastStep.outcome = "refused"

\* C13: on a busy line the ejector that is first in the list hands an item
\* off again and again, for ever, while from some tick on the item of the
\* second ejector stays in its slot at progress 1 for ever: it is never
\* handed off although the receiver accepts infinitely often.
C13_Starvation ==
    /\ []<>HandedOffBy("E1")
    /\ <>[](/\ slots["E2"][1].item # null
            /\ slots["E2"][1].progress = One
            /\ ~HandedOffBy("E2"))

\* the second ejector's item has been refused in many ticks and again in a
\* pass in which the first ejector handed an item off
C13_Witness ==
    /\ cursor = Idle
    /\ Len(passLog) = 2
    /\ passLog[1].entity = "E1" /\ passLog[1].outcome = "handoff"
    /\ passLog[2].entity = "E2" /\ passLog[2].outcome = "refused"
    /\ passLog[2].blocked = MaxBlocked

\* the property that C13 says fails: every item the receiver refuses is
\* eventually handed off
EveryRefusedItemHandedOff ==
    RefusedAt("E2") ~> (slots["E2"][1].item = null)

(***************************************************************************)
(* The progress of a slot (under SpecProgress: growth 0, 0.1, 0.25, 0.5    *)
(* or 1).                                                                  *)
(***************************************************************************)
IsDouble(d) == d.hi >= 0 /\ d.lo >= 0 /\ d.lo < Limb
AtCursor(k) == cursor # Idle /\ world.allEntities[cursor.i] = k[1]
                  /\ cursor.s = k[2]

\* C14: the progress of every slot is within 0 and 1 in every state; in a
\* step in which a slot keeps its item its progress does not decrease, and
\* in the slot's step of update() it becomes min(1, progress + growth).
C14_ProgressInvariant ==
    [][\A k \in SlotKeys :
          /\ IsDouble(slots[k[1]][k[2]].progress)
          /\ ~fless(slots[k[1]][k[2]].progress, Zero)
          /\ ~fless(One, slots[k[1]][k[2]].progress)
          /\ ~fless(One, slots'[k[1]][k[2]].progress)
          /\ (slots[k[1]][k[2]].item # null
                /\ slots'[k[1]][k[2]].item = slots[k[1]][k[2]].item) =>
                /\ ~fless(slots'[k[1]][k[2]].progress,
                          slots[k[1]][k[2]].progress)
                /\ slots'[k[1]][k[2]].progress =
                      IF AtCursor(k)
                      THEN Math_min(One, fadd(slots[k[1]][k[2]].progress,
                                              growth))
                      ELSE slots[k[1]][k[2]].progress
      ]_vars

\* at growth 0.1 the eleventh advance, from 0.9999999999999999, was cut
\* off at 1 and the belt refused the item, which stays in the slot
C14_Witness ==
    /\ growth = Tenth
    /\ lastStep.outcome = "refused"
    /\ lastStep.waited = 10
    /\ lastStep.blocked = 0
    /\ StepSlot.item = lastStep.item
    /\ StepSlot.progress = One

(***************************************************************************)
(* What update() leaves alone (under SpecReuse, where an insertion may     *)
(* also leave the progress of the slot as it is).                          *)
(***************************************************************************)
\* C15: a step of update() leaves every slot without an item as it is, and
\* never sets a progress back: after a handoff the slot has no item and
\* progress 1, and the progress of a slot without an item changes only when
\* an insertion sets it to 0; an item inserted into a slot whose progress
\* was left at 1 is not kept ejecting: the grid is asked in its first tick.
C15_ProgressNotReset ==
    [][\A k \in SlotKeys :
          /\ (cursor # Idle /\ slots[k[1]][k[2]].item = null) =>
                slots'[k[1]][k[2]] = slots[k[1]][k[2]]
          /\ (AtCursor(k) /\ lastStep'.outcome = "handoff") =>
                /\ slots'[k[1]][k[2]].item = null
                /\ slots'[k[1]][k[2]].progress = One
          /\ (slots[k[1]][k[2]].item = null
                /\ slots'[k[1]][k[2]].progress # slots[k[1]][k[2]].progress) =>
                /\ cursor = Idle
                /\ slots'[k[1]][k[2]].item # null
                /\ slots'[k[1]][k[2]].progress = Zero
          /\ (AtCursor(k) /\ slots[k[1]][k[2]].item # null
                /\ slots[k[1]][k[2]].progress = One) =>
                /\ lastStep'.outcome \notin {"idle", "ejecting"}
                /\ Len(lastStep'.calls) >= 1
                /\ lastStep'.calls[1].fn = "getTileContent"
      ]_vars

\* at growth 0.1 an item was put into a slot that an earlier handoff had
\* left at progress 1, and was handed off in its first tick
C15_Witness ==
    /\ growth = Tenth
    /\ lastStep.outcome = "handoff"
    /\ lastStep.waited = 0
    /\ lastStep.blocked = 0
    /\ StepSlot.item = null
    /\ StepSlot.progress = One

(***************************************************************************)
(* The protocol of a slot step (under Spec).                               *)
(***************************************************************************)
ProtocolOrder == <<"getTileContent", "findMatchingSlot", "canAcceptItem">>
StepCalls == lastStep.calls
StepStatic == world.entities[lastStep.entity].StaticMapEntity
\* what the grid holds at the tile the step asked for
Found == getTileContent(world, StepCalls[1].tile)
FoundAcceptor == world.entities[Found].ItemAcceptor
FoundMatch ==
    findMatchingSlot(FoundAcceptor, StepCalls[2].tile, StepCalls[2].direction)

\* C16: the calls of a slot step are made in the order getTileContent,
\* findMatchingSlot, canAcceptItem, capability calls, each only after the
\* one before it succeeded and only once progress is 1: a capability is
\* called on the entity the grid returned, which exposes an ItemAcceptor
\* that matched and whose canAcceptItem returned true; after a step that
\* failed, no later step of the protocol is made.
C16_ProtocolOrder ==
    /\ \A k \in 1..Len(StepCalls) :
          IF k <= 3 THEN StepCalls[k].fn = ProtocolOrder[k]
          ELSE IsTry(StepCalls[k]) \/ StepCalls[k].fn = "Belt.takeNewItem"
    /\ StepCalls # <<>> =>
          /\ lastStep.item # null
          /\ StepSlot.progress = One
    /\ lastStep.outcome \in {"idle", "ejecting"} => StepCalls = <<>>
    /\ lastStep.outcome = "ejecting" => fless(StepSlot.progress, One)
    /\ lastStep.outcome = "noEntity" =>
          (Len(StepCalls) = 1 /\ Found = NoEntity)
    /\ lastStep.outcome = "noAcceptor" =>
          (Len(StepCalls) = 1 /\ Found # NoEntity /\ ~FoundAcceptor.present)
    /\ lastStep.outcome = "noMatch" =>
          (Len(StepCalls) = 2 /\ FoundAcceptor.present /\ ~FoundMatch.found)
    /\ lastStep.outcome = "cannotAccept" =>
          /\ Len(StepCalls) = 3
          /\ FoundMatch.found
          /\ ~canAcceptItem(FoundAcceptor, StepCalls[3].index, lastStep.item)
    /\ Len(StepCalls) > 3 =>
          /\ Attempted
          /\ Found # NoEntity
          /\ FoundAcceptor.present
          /\ StepCalls[2].on = Found
          /\ FoundMatch.found
          /\ StepCalls[3].on = Found
          /\ StepCalls[3].index = FoundMatch.index
          /\ StepCalls[3].item = lastStep.item
          /\ canAcceptItem(FoundAcceptor, FoundMatch.index, lastStep.item)
          /\ \A k \in 4..Len(StepCalls) : StepCalls[k].on = Found
    /\ Attempted => Len(StepCalls) >= 3

\* a color item came to the receiver's slot 1, which takes shapes only:
\* canAcceptItem returned false and no capability was called
C16_Witness ==
    /\ lastStep.outcome = "cannotAccept"
    /\ Len(StepCalls) = 3
    /\ StepCalls[3].fn = "canAcceptItem"
    /\ StepCalls[3].index = 1
    /\ ItemKind(lastStep.item) = "color"
    /\ Exposed(Found) # {}

(***************************************************************************)
(* The arguments the receiver is called with (under Spec).                 *)
(***************************************************************************)
\* the world direction of the emission of the latest step
StepWsDirection == localDirectionToWorld(StepStatic, StepSlot.direction)
CapabilityCalls ==
    SelectSeq(StepCalls, LAMBDA c : IsTry(c) \/ c.fn = "Belt.takeNewItem")

\* the local direction the receiver R is asked about, by its rotation, for
\* an emission to the right (from E1) and to the left (from E2)
ExpectedLocal(rotR, wsDirection) ==
    CASE rotR = 0 -> wsDirection
      [] rotR = 90 -> IF wsDirection = "right" THEN "top" ELSE "bottom"
      [] rotR = 180 -> IF wsDirection = "right" THEN "left" ELSE "right"

\* C17: findMatchingSlot is called with the target world tile and the world
\* direction of the emission converted by the receiver's transform, not the
\* emitter's; canAcceptItem is called with the index of the match, and the
\* capabilities with the index and the acceptedDirection of the match.
C17_ReceiverFrame ==
    /\ Len(StepCalls) >= 1 =>
          StepCalls[1].tile = EjectTargetTile(StepStatic, StepSlot)
    /\ Len(StepCalls) >= 2 =>
          LET recv == world.entities[Found].StaticMapEntity
          IN  /\ StepCalls[2].tile = worldToLocalTile(recv, StepCalls[1].tile)
              /\ StepCalls[2].direction =
                    worldDirectionToLocal(recv, StepWsDirection)
              /\ Found = "R"
              /\ StepCalls[1].tile = Vec(1, 0)
              /\ StepCalls[2].tile = Vec(0, 0)
              /\ StepWsDirection =
                    (IF lastStep.entity = "E2" THEN "left" ELSE "right")
              /\ StepCalls[2].direction =
                    ExpectedLocal(recv.rotation, StepWsDirection)
    /\ Len(StepCalls) >= 3 => StepCalls[3].index = FoundMatch.index
    /\ \A k \in 1..Len(CapabilityCalls) :
          LET c == CapabilityCalls[k]
          IN  /\ c.fn = "ItemProcessor.tryTakeItem" =>
                    c.index = FoundMatch.index
              /\ c.fn # "UndergroundBelt.tryAcceptExternalItem" =>
                    c.direction = FoundMatch.acceptedDirection
              /\ c.fn # "Belt.canAcceptNewItem" => c.item = lastStep.item

\* E2, rotated by 180, handed an item to the unrotated receiver: the
\* receiver was asked about the direction left and its slot 1 matched,
\* where the emitter's transform would have given right and slot 0
C17_Witness ==
    /\ lastStep.entity = "E2"
    /\ lastStep.outcome = "handoff"
    /\ StepStatic.rotation = 180
    /\ world.entities["R"].StaticMapEntity.rotation = 0
    /\ StepCalls[2].direction = "left"
    /\ worldDirectionToLocal(StepStatic, StepWsDirection) = "right"
    /\ StepCalls[3].index = 1
    /\ StepCalls[4].fn = "ItemProcessor.tryTakeItem"
    /\ StepCalls[4].index = 1
    /\ StepCalls[4].direction = "right"

(***************************************************************************)
(* Liveness of one slot (under SpecLive: one ejector before a belt that    *)
(* no other slot feeds).                                                   *)
(***************************************************************************)
TheSlot == slots["E1"][1]

DrawnStatic == world.entities[drawn.entity].StaticMapEntity
DrawnSlots == SelectSeq(slots[drawn.entity], HoldsItem)

\* the tile the slot is on and the unit vector it ejects along, in world
\* space, by the component's own conversions
SlotWsTile(slot) == localTileToWorld(DrawnStatic, slot.pos)
SlotWsVector(slot) ==
    enumDirectionToVector(localDirectionToWorld(DrawnStatic, slot.direction))

\* exactly the slots that hold an item are drawn, in the order of the slots
FullSlotsDrawn ==
    /\ Len(drawn.calls) = Len(DrawnSlots)
    /\ \A k \in 1..Len(drawn.calls) : drawn.calls[k].item = DrawnSlots[k].item

DrawnAt(k) == Vec(drawn.calls[k].worldX, drawn.calls[k].worldY)

\* (origin + rotate(pos)) + rotate(direction vector) * 0.5 * progress, in
\* eighths of a tile
CornerPosition(slot) ==
    Vec(PerTile * SlotWsTile(slot).x
            + SlotWsVector(slot).x * HalfOfProgress(slot.progress),
        PerTile * SlotWsTile(slot).y
            + SlotWsVector(slot).y * HalfOfProgress(slot.progress))

\* the same from the centre of the tile, half a tile further on both axes
CentrePosition(slot) ==
    add(CornerPosition(slot), Vec(PerTile \div 2, PerTile \div 2))

InPixels(v) == Vec(v.x * globalConfig_tileSize, v.y * globalConfig_tileSize)

DrawingChangesNothing ==
    [][drawn' # drawn => UNCHANGED <<tickVars, comp, out>>]_vars

\* C20, as the specification states it: every slot that holds an item is
\* drawn at entityOrigin + rotate(localPosition)
\* + rotate(localDirectionUnitVector) * 0.5 * progress tiles, times the tile
\* size in pixels; slots without an item are not drawn; drawing changes no
\* slot and no transform state.
C20_DrawPosition ==
    /\ [](drawn # NoDraw =>
            /\ FullSlotsDrawn
            /\ \A k \in 1..Len(drawn.calls) :
                  DrawnAt(k) = InPixels(CornerPosition(DrawnSlots[k])))
    /\ DrawingChangesNothing

\* C20, amended: the item is drawn half a tile further right and down, at
\* the centre of the slot's tile plus rotate(localDirectionUnitVector)
\* * 0.5 * progress tiles; the rest of the claim holds as stated.
C20_DrawPositionFromCentre ==
    /\ [](drawn # NoDraw =>
            /\ FullSlotsDrawn
            /\ \A k \in 1..Len(drawn.calls) :
                  DrawnAt(k) = InPixels(CentrePosition(DrawnSlots[k])))
    /\ DrawingChangesNothing

\* The ejector of two tiles, turned by 90 degrees, is drawn with its first
\* slot empty and an item at progress 0.5 in its second slot: the slot is
\* on tile (3,4) and ejects downwards, the item is drawn at (3.5, 4.75)
\* tiles, which is (112, 152) pixels.
C20_Witness ==
    /\ drawn.entity = "E4"
    /\ DrawnStatic.rotation = 90
    /\ slots["E4"][1].item = null
    /\ slots["E4"][2].item # null
    /\ slots["E4"][2].progress = Half
    /\ Len(drawn.calls) = 1
    /\ drawn.calls[1].item = slots["E4"][2].item
    /\ DrawnAt(1) = Vec(112 * PerTile, 152 * PerTile)

====
